---- MODULE Spec2Model ----
(***************************************************************************)
(* Order placement against shared inventory: the POST /orders/ handler     *)
(* (app/routers/orders.py), crud.create_order as the integration tests     *)
(* call it (tests/test_order_locking.py), and the inventory endpoints      *)
(* restock / update (app/routers/inventory.py, app/crud.py), and the       *)
(* order endpoints update / delete (app/routers/orders.py).                *)
(*                                                                         *)
(* The database is the durable state; every db.commit() is one atomic      *)
(* step that publishes the session's pending writes.  A request reads rows *)
(* into its own session (fields items, seen of its record) and other       *)
(* requests may commit between two of its steps (read committed).          *)
(***************************************************************************)
EXTENDS Integers, Sequences, FiniteSets, TLC

\* ---------------------------------------------------------------- bounds
NumReqs  == 2      \* concurrent calls
NumUsers == 2      \* users, each with one cart row
NumProducts == 2   \* product ids
MaxStock == 2      \* largest initial / requested quantity_in_stock
MaxQty   == 2      \* largest line quantity / quantity_to_add
MaxItems == 2      \* most line items in a cart
MaxUnits == 2      \* most units (sum of line quantities) in a cart
MaxOrders == 1     \* orders that exist before the first call
MaxTracking  == 1   \* tracking entries that exist at the start
MaxAddresses == 1   \* Address rows that exist at the start

Reqs       == 1..NumReqs
Users      == 1..NumUsers
ProductIds == 1..NumProducts
\* one id more than there are cart rows: a cart_id that is not found
CartIds    == 1..(NumUsers + 1)

VARIABLES
  products,        \* ids of the rows of table products
  price,           \* Product.price, in cents
  inventory,       \* product_id -> Inventory.quantity_in_stock (rows only)
  shopping_carts,  \* cart id -> ShoppingCart.user_id (rows only)
  cart_items,      \* cart id -> sequence of [product_id, quantity]
  orders,          \* sequence of Order rows, in insertion (id) order
  req,             \* per call: operation, arguments, position, session data
  initial_stock,   \* history: inventory as it was in the initial state
  deleted_orders,  \* ids of the Order rows that were deleted
  order_tracking,  \* tracking id -> OrderTracking row (rows only)
  addresses        \* sequence of Address rows, in insertion (id) order

vars == <<products, price, inventory, shopping_carts, cart_items, orders,
          req, initial_stock, deleted_orders, order_tracking, addresses>>

db == <<products, price, inventory, shopping_carts, cart_items, orders>>

\* ------------------------------------------------------------ data types
Line(p, q) == [product_id |-> p, quantity |-> q]

Lines == {Line(p, q) : p \in ProductIds, q \in 1..MaxQty}

RECURSIVE Units(_)
\* the sum of the line quantities of a sequence of line items
Units(s) == IF s = <<>> THEN 0 ELSE s[1].quantity + Units(Tail(s))

\* carts of at most MaxItems line items, one line per product, MaxUnits units
CartContents ==
  {s \in UNION {[1..n -> Lines] : n \in 0..MaxItems} :
     /\ \A i, j \in DOMAIN s : i # j => s[i].product_id # s[j].product_id
     /\ Units(s) <= MaxUnits}

\* calls are numbered in the order they arrive
Arrives(r) == req[r].pc = "idle" /\ \A k \in 1..(r - 1) : req[k].pc # "idle"

IdleReq ==
  [op |-> "none", pc |-> "idle", user |-> 0, cart |-> 0, product |-> 0,
   qty |-> 0, items |-> <<>>, idx |-> 0, total |-> 0, seen |-> 0,
   order |-> 0, order_status |-> "unset", address |-> "unset",
   loaded |-> <<>>, item |-> 0, fields |-> {}, is_default |-> "unset",
   cleared |-> {}, outcome |-> "none"]

\* a call returns: its record keeps the arguments and gains the outcome
Return(r, res) == [req EXCEPT ![r].pc = "done", ![r].outcome = res]

\* ------------------------------------------------------------------ Init
Init ==
  /\ products = ProductIds
  /\ price \in [ProductIds -> {1}]
  /\ inventory \in [ProductIds -> 0..MaxStock]
  /\ shopping_carts = [c \in Users |-> c]
  /\ cart_items \in [Users -> CartContents]
  /\ orders = <<>>
  /\ req = [r \in Reqs |-> IdleReq]
  /\ initial_stock = inventory
  /\ deleted_orders = {}
  /\ order_tracking = <<>>
  /\ addresses = <<>>

\* ------------------------------------------------- pure helpers of the code
\* models.Product (app/models.py): the mapped columns of table products.
\* Column quantity was dropped; stock lives in table inventory.
ProductColumns ==
  {"id", "sku", "name", "description", "price", "created_at", "updated_at"}

\* pydantic Field constraints of the request schemas (app/schemas.py)
\* the constraint left out: any integer passes
InventoryRestockUnchecked(q) == q \in Int

\* InventoryRestock.quantity_to_add: gt=0
InventoryRestockValid(q) == q > 0

\* the constraint left out: any integer passes
InventoryUpdateUnchecked(q) == q \in Int

\* InventoryUpdate.quantity_in_stock: ge=0
InventoryUpdateValid(q) == q >= 0

\* the comparison left out: every cart passes for the caller's
OwnerNotCompared(c, u) == TRUE

\* routers/orders.py line 52: cart.user_id equals current_user.id
CartOwnedBy(c, u) == shopping_carts[c] = u

\* the test left out: no list of items counts as empty
EmptinessNotTested(items) == FALSE

\* routers/orders.py line 59: not cart.items
NoItems(items) == items = <<>>

\* crud.create_order, lines 813-816: one pass of the loop that sums the total;
\* a line whose product is not found adds nothing
AddLine(total, item) ==
  IF item.product_id \in products
    THEN total + price[item.product_id] * item.quantity
    ELSE total

\* crud.create_order, lines 818-824: the Order row that is inserted
OrderRow(u, c, total) ==
  [user_id |-> u, cart_id |-> c, address |-> "Addr",
   order_status |-> "pending", total_amount |-> total]

\* --------------------------------------- POST /orders/ (routers/orders.py)
\* the request arrives: authenticated user u, body cart_id = c
OrderRequest(r, u, c) ==
  /\ Arrives(r)
  /\ req' = [req EXCEPT ![r] = [IdleReq EXCEPT !.op = "order_request",
                                  !.pc = "cart", !.user = u, !.cart = c]]
  /\ UNCHANGED <<db, initial_stock, deleted_orders, order_tracking, addresses>>

\* lines 43-56: the cart is looked up and its owner compared
RouterGetCart(r) ==
  /\ req[r].op = "order_request" /\ req[r].pc = "cart"
  /\ req' = IF req[r].cart \notin DOMAIN shopping_carts
              THEN Return(r, "NotFound")
            ELSE IF ~CartOwnedBy(req[r].cart, req[r].user)
              THEN Return(r, "Forbidden")
            ELSE [req EXCEPT ![r].pc = "items"]
  /\ UNCHANGED <<db, initial_stock, deleted_orders, order_tracking, addresses>>

\* lines 58-63: cart.items is loaded into the session
RouterLoadItems(r) ==
  /\ req[r].op = "order_request" /\ req[r].pc = "items"
  /\ LET items == cart_items[req[r].cart] IN
       req' = IF NoItems(items)
                THEN Return(r, "EmptyCart")
                ELSE [req EXCEPT ![r].items = items, ![r].idx = 1,
                                 ![r].pc = "stock"]
  /\ UNCHANGED <<db, initial_stock, deleted_orders, order_tracking, addresses>>

\* lines 65-77: the stock check of the first line item.  The product is
\* looked up (404 when it is gone); then product.quantity is read, and
\* Product has no such attribute (ProductColumns): AttributeError, answered
\* as 500.  No path leads on to lines 79-89, the call of crud.create_order
\* and the decrement loop.
RouterCheckStock(r) ==
  /\ req[r].op = "order_request" /\ req[r].pc = "stock"
  /\ "quantity" \notin ProductColumns
  /\ req[r].idx \in DOMAIN req[r].items
  /\ LET item == req[r].items[req[r].idx] IN
       req' = IF item.product_id \notin products
                THEN Return(r, "NotFound")
                ELSE Return(r, "InternalError")
  /\ UNCHANGED <<db, initial_stock, deleted_orders, order_tracking, addresses>>

\* ----------- crud.create_order, called as tests/test_order_locking.py does
\* _attempt_order, test_single_order_decrements_and_clears_cart: the call is
\* made for user u with the user's own cart, which holds an item
CrudCreateOrder(r, u) ==
  /\ Arrives(r)
  /\ \E c \in DOMAIN shopping_carts :
       /\ shopping_carts[c] = u
       /\ cart_items[c] # <<>>
       /\ req' = [req EXCEPT ![r] = [IdleReq EXCEPT !.op = "create_order",
                                       !.pc = "cart", !.user = u, !.cart = c]]
  /\ UNCHANGED <<db, initial_stock, deleted_orders, order_tracking, addresses>>

\* lines 808-812: the cart and its items are loaded, total starts at 0.00
CrudLoadCart(r) ==
  /\ req[r].op = "create_order" /\ req[r].pc = "cart"
  /\ LET items == IF req[r].cart \in DOMAIN shopping_carts
                    THEN cart_items[req[r].cart] ELSE <<>> IN
       req' = [req EXCEPT ![r].items = items, ![r].idx = 1, ![r].total = 0,
                          ![r].pc = IF items = <<>> THEN "insert" ELSE "total"]
  /\ UNCHANGED <<db, initial_stock, deleted_orders, order_tracking, addresses>>

\* the line item is taken up only once the stock covers it: the call waits
CrudAddLineAwaitsStock(r) ==
  /\ req[r].op = "create_order" /\ req[r].pc = "total"
  /\ LET i == req[r].idx IN
       /\ req[r].items[i].product_id \in DOMAIN inventory
       /\ inventory[req[r].items[i].product_id] >= req[r].items[i].quantity
       /\ req' = [req EXCEPT
                    ![r].total = AddLine(req[r].total, req[r].items[i]),
                    ![r].idx = i + 1,
                    ![r].pc = IF i = Len(req[r].items)
                                THEN "insert" ELSE "total"]
  /\ UNCHANGED <<db, initial_stock, deleted_orders, order_tracking, addresses>>

\* lines 813-816: one line item: its product is looked up, its amount added
CrudAddLine(r) ==
  /\ req[r].op = "create_order" /\ req[r].pc = "total"
  /\ LET i == req[r].idx IN
       req' = [req EXCEPT ![r].total = AddLine(req[r].total, req[r].items[i]),
                          ![r].idx = i + 1,
                          ![r].pc = IF i = Len(req[r].items)
                                      THEN "insert" ELSE "total"]
  /\ UNCHANGED <<db, initial_stock, deleted_orders, order_tracking, addresses>>

\* the insert made durable although the commit is reported as failed
CrudInsertOrderHalfCommitted(r) ==
  /\ req[r].op = "create_order" /\ req[r].pc = "insert"
  /\ orders' = Append(orders,
                      OrderRow(req[r].user, req[r].cart, req[r].total))
  /\ \/ req' = Return(r, "Created")
     \/ req' = Return(r, "Unavailable")
  /\ UNCHANGED <<products, price, inventory, shopping_carts, cart_items,
                 initial_stock, deleted_orders, order_tracking, addresses>>

\* lines 818-828: the Order row is added and committed.  The commit is the
\* only write of the call; when it raises, the session is closed and nothing
\* of it is stored.
CrudInsertOrder(r) ==
  /\ req[r].op = "create_order" /\ req[r].pc = "insert"
  /\ \/ /\ orders' = Append(orders,
                            OrderRow(req[r].user, req[r].cart, req[r].total))
        /\ req' = Return(r, "Created")
     \/ /\ orders' = orders
        /\ req' = Return(r, "Unavailable")
  /\ UNCHANGED <<products, price, inventory, shopping_carts, cart_items,
                 initial_stock, deleted_orders, order_tracking, addresses>>

\* ------------------- POST /inventory/{id}/restock (routers/inventory.py)
\* the inventory row of product p has id p.  A body that fails the schema
\* (quantity_to_add <= 0) is answered 422 before the handler runs.
RestockRequest(r, p, q) ==
  /\ Arrives(r)
  /\ req' = [req EXCEPT ![r] =
       [IdleReq EXCEPT !.op = "restock", !.product = p, !.qty = q,
          !.pc = IF InventoryRestockValid(q) THEN "read" ELSE "done",
          !.outcome = IF InventoryRestockValid(q)
                        THEN "none" ELSE "ValidationError"]]
  /\ UNCHANGED <<db, initial_stock, deleted_orders, order_tracking, addresses>>

\* crud.restock_inventory, lines 1329-1331: the row is read into the session
RestockRead(r) ==
  /\ req[r].op = "restock" /\ req[r].pc = "read"
  /\ req' = IF req[r].product \notin DOMAIN inventory
              THEN Return(r, "NotFound")
              ELSE [req EXCEPT ![r].seen = inventory[req[r].product],
                               ![r].pc = "commit"]
  /\ UNCHANGED <<db, initial_stock, deleted_orders, order_tracking, addresses>>

\* lines 1333-1338: the sum computed from the value read is written back
RestockCommit(r) ==
  /\ req[r].op = "restock" /\ req[r].pc = "commit"
  /\ \/ /\ inventory' = [inventory EXCEPT
                           ![req[r].product] = req[r].seen + req[r].qty]
        /\ req' = Return(r, "Ok")
     \/ /\ inventory' = inventory
        /\ req' = Return(r, "Unavailable")
  /\ UNCHANGED <<products, price, shopping_carts, cart_items, orders,
                 initial_stock, deleted_orders, order_tracking, addresses>>

\* --------------------------- PUT /inventory/{id} (routers/inventory.py)
\* body quantity_in_stock = q; a negative q fails the schema (422)
UpdateInventoryRequest(r, p, q) ==
  /\ Arrives(r)
  /\ req' = [req EXCEPT ![r] =
       [IdleReq EXCEPT !.op = "update_inventory", !.product = p, !.qty = q,
          !.pc = IF InventoryUpdateValid(q) THEN "update" ELSE "done",
          !.outcome = IF InventoryUpdateValid(q)
                        THEN "none" ELSE "ValidationError"]]
  /\ UNCHANGED <<db, initial_stock, deleted_orders, order_tracking, addresses>>

\* crud.update_inventory, lines 1300-1310: the row is looked up (404 when
\* absent) and quantity_in_stock is set to the value of the body, whatever
\* the row held
UpdateInventory(r) ==
  /\ req[r].op = "update_inventory" /\ req[r].pc = "update"
  /\ IF req[r].product \notin DOMAIN inventory
       THEN inventory' = inventory /\ req' = Return(r, "NotFound")
       ELSE \/ /\ inventory' = [inventory EXCEPT ![req[r].product] = req[r].qty]
               /\ req' = Return(r, "Ok")
            \/ /\ inventory' = inventory
               /\ req' = Return(r, "Unavailable")
  /\ UNCHANGED <<products, price, shopping_carts, cart_items, orders,
                 initial_stock, deleted_orders, order_tracking, addresses>>

\* ------------------------------------------ cart and catalogue endpoints
\* the sequence s without its i-th element
RemoveAt(s, i) == SubSeq(s, 1, i - 1) \o SubSeq(s, i + 1, Len(s))

\* DELETE /cart/items/{item_id} (routers/cart.py remove_item,
\* crud.remove_item_from_cart): the owner removes line i of cart c
RemoveItem(c, i) ==
  /\ c \in DOMAIN cart_items /\ i \in DOMAIN cart_items[c]
  /\ cart_items' = [cart_items EXCEPT ![c] = RemoveAt(cart_items[c], i)]
  /\ UNCHANGED <<products, price, inventory, shopping_carts, orders, req,
                 initial_stock, deleted_orders, order_tracking, addresses>>

\* DELETE /inventory/{id} (crud.delete_inventory): the row of product p goes
DeleteInventory(p) ==
  /\ p \in DOMAIN inventory
  /\ inventory' = [x \in DOMAIN inventory \ {p} |-> inventory[x]]
  /\ UNCHANGED <<products, price, shopping_carts, cart_items, orders, req,
                 initial_stock, deleted_orders, order_tracking, addresses>>

\* the rows that hold product p in a NOT NULL foreign key (models.py):
\* shopping_cart_items.product_id and inventory.product_id
Referenced(p) ==
  \/ p \in DOMAIN inventory
  \/ \E c \in DOMAIN cart_items, i \in 1..MaxItems :
       i \in DOMAIN cart_items[c] /\ cart_items[c][i].product_id = p

\* DELETE /products/{id} (crud.delete_product): the commit succeeds only
\* when no row references the product; otherwise it raises and nothing goes
DeleteProduct(p) ==
  /\ p \in products
  /\ ~Referenced(p)
  /\ products' = products \ {p}
  /\ UNCHANGED <<price, inventory, shopping_carts, cart_items, orders, req,
                 initial_stock, deleted_orders, order_tracking, addresses>>

\* ------------------------------------------------------- specification
\* quantities a client may send, valid or not
RestockQuantities == 0..MaxQty
UpdateQuantities  == (0 - 1)..MaxStock

Next ==
  \/ \E r \in Reqs, u \in Users, c \in CartIds : OrderRequest(r, u, c)
  \/ \E r \in Reqs : RouterGetCart(r)
  \/ \E r \in Reqs : RouterLoadItems(r)
  \/ \E r \in Reqs : RouterCheckStock(r)
  \/ \E r \in Reqs, u \in Users : CrudCreateOrder(r, u)
  \/ \E r \in Reqs : CrudLoadCart(r)
  \/ \E r \in Reqs : CrudAddLine(r)
  \/ \E r \in Reqs : CrudInsertOrder(r)
  \/ \E r \in Reqs, p \in ProductIds, q \in RestockQuantities :
       RestockRequest(r, p, q)
  \/ \E r \in Reqs : RestockRead(r)
  \/ \E r \in Reqs : RestockCommit(r)
  \/ \E r \in Reqs, p \in ProductIds, q \in UpdateQuantities :
       UpdateInventoryRequest(r, p, q)
  \/ \E r \in Reqs : UpdateInventory(r)

Spec == Init /\ [][Next]_vars

\* Order placement next to the cart and catalogue endpoints that can take a
\* product away: every product starts with one unit in stock.
InitCatalog ==
  /\ Init
  /\ inventory = [p \in ProductIds |-> 1]

NextCatalog ==
  \/ \E r \in Reqs, u \in Users, c \in CartIds : OrderRequest(r, u, c)
  \/ \E r \in Reqs : RouterGetCart(r)
  \/ \E r \in Reqs : RouterLoadItems(r)
  \/ \E r \in Reqs : RouterCheckStock(r)
  \/ \E r \in Reqs, u \in Users : CrudCreateOrder(r, u)
  \/ \E r \in Reqs : CrudLoadCart(r)
  \/ \E r \in Reqs : CrudAddLine(r)
  \/ \E r \in Reqs : CrudInsertOrder(r)
  \/ \E c \in Users, i \in 1..MaxItems : RemoveItem(c, i)
  \/ \E p \in ProductIds : DeleteInventory(p)
  \/ \E p \in ProductIds : DeleteProduct(p)

SpecCatalog == InitCatalog /\ [][NextCatalog]_vars

\* ------------------------------- PUT /orders/{id} (routers/orders.py)
\* routers/orders.py line 199: valid_statuses
ValidStatuses == {"pending", "confirmed", "shipped", "delivered", "cancelled"}

\* a field of the body OrderUpdate (Optional[str]): left out ("unset"), sent
\* as null ("null"), or sent as a string
StatusInputs == {"unset", "null", "", "returned"} \cup ValidStatuses

AddressInputs == {"unset", "New"}

\* truth value of an Optional[str] in a python condition: None and the empty
\* string are false
Truthy(s) == s \notin {"unset", "null", ""}

\* routers/orders.py line 200: the condition that raises 400
StatusRejected(s) == Truthy(s) /\ s \notin ValidStatuses

\* crud.get_order finds a row: the id was inserted and not deleted
OrderExists(o) == o \in (1..Len(orders)) \ deleted_orders

\* the request arrives: authenticated user u, path order_id = o, body fields
\* order_status = st and address = ad
UpdateOrderRequest(r, u, o, st, ad) ==
  /\ Arrives(r)
  /\ req' = [req EXCEPT ![r] =
       [IdleReq EXCEPT !.op = "update_order", !.pc = "check", !.user = u,
                       !.order = o, !.order_status = st, !.address = ad]]
  /\ UNCHANGED <<db, initial_stock, deleted_orders, order_tracking, addresses>>

\* lines 183-204: the order is loaded into the session, its owner compared
\* and the status of the body validated
UpdateOrderCheck(r) ==
  /\ req[r].op = "update_order" /\ req[r].pc = "check"
  /\ req' = IF ~OrderExists(req[r].order)
              THEN Return(r, "NotFound")
            ELSE IF orders[req[r].order].user_id # req[r].user
              THEN Return(r, "Forbidden")
            ELSE IF StatusRejected(req[r].order_status)
              THEN Return(r, "BadRequest")
            ELSE [req EXCEPT ![r].loaded = <<orders[req[r].order]>>,
                             ![r].pc = "apply"]
  /\ UNCHANGED <<db, initial_stock, deleted_orders, order_tracking, addresses>>

\* crud.update_order, lines 850-853: the fields of the body that were sent
\* are set on the loaded object; the UPDATE carries the columns whose value
\* differs from the one loaded
Updated(row, loaded, st, ad) ==
  [row EXCEPT
     !.order_status = IF st # "unset" /\ st # loaded.order_status
                        THEN st ELSE @,
     !.address = IF ad # "unset" /\ ad # loaded.address THEN ad ELSE @]

\* crud.update_order, lines 847-857: the row is looked up again; when it is
\* gone the handler returns None, which fails the response model (500); a
\* null status violates NOT NULL at the commit (500)
UpdateOrderApply(r) ==
  /\ req[r].op = "update_order" /\ req[r].pc = "apply"
  /\ LET o == req[r].order IN
       IF ~OrderExists(o) \/ req[r].order_status = "null"
         THEN orders' = orders /\ req' = Return(r, "InternalError")
         ELSE \/ /\ orders' = [orders EXCEPT ![o] =
                      Updated(@, req[r].loaded[1], req[r].order_status,
                              req[r].address)]
                 /\ req' = Return(r, "Ok")
              \/ /\ orders' = orders
                 /\ req' = Return(r, "Unavailable")
  /\ UNCHANGED <<products, price, inventory, shopping_carts, cart_items,
                 initial_stock, deleted_orders, order_tracking, addresses>>

\* ---------------------------- DELETE /orders/{id} (routers/orders.py)
\* the test left out: an order of any status may be deleted
DeletionNeverBlocked(st) == FALSE

\* routers/orders.py line 246: the statuses that forbid deletion
DeletionBlocked(st) == st \in {"shipped", "delivered"}

\* the request arrives: authenticated user u, path order_id = o
DeleteOrderRequest(r, u, o) ==
  /\ Arrives(r)
  /\ req' = [req EXCEPT ![r] =
       [IdleReq EXCEPT !.op = "delete_order", !.pc = "check", !.user = u,
                       !.order = o]]
  /\ UNCHANGED <<db, initial_stock, deleted_orders, order_tracking, addresses>>

\* lines 230-250: the order is loaded, its owner and its status checked
DeleteOrderCheck(r) ==
  /\ req[r].op = "delete_order" /\ req[r].pc = "check"
  /\ req' = IF ~OrderExists(req[r].order)
              THEN Return(r, "NotFound")
            ELSE IF orders[req[r].order].user_id # req[r].user
              THEN Return(r, "Forbidden")
            ELSE IF DeletionBlocked(orders[req[r].order].order_status)
              THEN Return(r, "BadRequest")
            ELSE [req EXCEPT ![r].loaded = <<orders[req[r].order]>>,
                             ![r].pc = "apply"]
  /\ UNCHANGED <<db, initial_stock, deleted_orders, order_tracking, addresses>>

\* models.Order.tracking_history, cascade="all, delete-orphan": the tracking
\* rows that are left when order o is deleted
WithoutTrackingOf(o) ==
  [t \in {x \in DOMAIN order_tracking : order_tracking[x].order_id # o} |->
     order_tracking[t]]

\* crud.delete_order, lines 871-876: the row is looked up again and deleted
\* together with its tracking rows; when it is gone the handler returns
\* None (500)
DeleteOrderApply(r) ==
  /\ req[r].op = "delete_order" /\ req[r].pc = "apply"
  /\ IF ~OrderExists(req[r].order)
       THEN /\ deleted_orders' = deleted_orders
            /\ order_tracking' = order_tracking
            /\ req' = Return(r, "InternalError")
       ELSE \/ /\ deleted_orders' = deleted_orders \cup {req[r].order}
               /\ order_tracking' = WithoutTrackingOf(req[r].order)
               /\ req' = Return(r, "Ok")
            \/ /\ deleted_orders' = deleted_orders
               /\ order_tracking' = order_tracking
               /\ req' = Return(r, "Unavailable")
  /\ UNCHANGED <<db, initial_stock, addresses>>

\* The life of orders: some orders exist, each in a status an earlier
\* update gave it; every user's cart holds one unit of product 1.
InitLedger ==
  /\ products = ProductIds
  /\ price = [p \in ProductIds |-> 1]
  /\ inventory = [p \in ProductIds |-> MaxStock]
  /\ shopping_carts = [c \in Users |-> c]
  /\ cart_items = [c \in Users |-> <<Line(1, 1)>>]
  /\ orders \in [1..MaxOrders ->
                   {[OrderRow(u, u, 1) EXCEPT !.order_status = st] :
                      u \in Users, st \in ValidStatuses}]
  /\ req = [r \in Reqs |-> IdleReq]
  /\ initial_stock = inventory
  /\ deleted_orders = {}
  /\ order_tracking = <<>>
  /\ addresses = <<>>

NextLedger ==
  \/ \E r \in Reqs, u \in Users : CrudCreateOrder(r, u)
  \/ \E r \in Reqs : CrudLoadCart(r)
  \/ \E r \in Reqs : CrudAddLine(r)
  \/ \E r \in Reqs : CrudInsertOrder(r)
  \/ \E r \in Reqs, u \in Users, o \in 1..(MaxOrders + 1),
        st \in StatusInputs, ad \in AddressInputs :
       UpdateOrderRequest(r, u, o, st, ad)
  \/ \E r \in Reqs : UpdateOrderCheck(r)
  \/ \E r \in Reqs : UpdateOrderApply(r)
  \/ \E r \in Reqs, u \in Users, o \in 1..(MaxOrders + 1) :
       DeleteOrderRequest(r, u, o)
  \/ \E r \in Reqs : DeleteOrderCheck(r)
  \/ \E r \in Reqs : DeleteOrderApply(r)

SpecLedger == InitLedger /\ [][NextLedger]_vars

\* The inventory endpoints on their own, called with the ids of the rows
\* and with one id more, which no row has; the carts are empty.
InventoryIds == 1..(NumProducts + 1)

InitInventory ==
  /\ Init
  /\ cart_items = [c \in Users |-> <<>>]

NextInventory ==
  \/ \E r \in Reqs, p \in InventoryIds, q \in (0 - 1)..MaxQty :
       RestockRequest(r, p, q)
  \/ \E r \in Reqs : RestockRead(r)
  \/ \E r \in Reqs : RestockCommit(r)
  \/ \E r \in Reqs, p \in InventoryIds, q \in UpdateQuantities :
       UpdateInventoryRequest(r, p, q)
  \/ \E r \in Reqs : UpdateInventory(r)

SpecInventory == InitInventory /\ [][NextInventory]_vars

\* Order placements on their own, under a fair scheduler: the carts of two
\* users hold the same two products, listed in opposite orders.
InitRace ==
  /\ products = ProductIds
  /\ price = [p \in ProductIds |-> 1]
  /\ inventory \in [ProductIds -> 0..MaxStock]
  /\ shopping_carts = [c \in Users |-> c]
  /\ cart_items = [c \in Users |->
                     IF c = 1 THEN <<Line(1, 1), Line(2, 1)>>
                              ELSE <<Line(2, 1), Line(1, 1)>>]
  /\ orders = <<>>
  /\ req = [r \in Reqs |-> IdleReq]
  /\ initial_stock = inventory
  /\ deleted_orders = {}
  /\ order_tracking = <<>>
  /\ addresses = <<>>

NextRace ==
  \/ \E r \in Reqs, u \in Users, c \in CartIds : OrderRequest(r, u, c)
  \/ \E r \in Reqs : RouterGetCart(r)
  \/ \E r \in Reqs : RouterLoadItems(r)
  \/ \E r \in Reqs : RouterCheckStock(r)
  \/ \E r \in Reqs, u \in Users : CrudCreateOrder(r, u)
  \/ \E r \in Reqs : CrudLoadCart(r)
  \/ \E r \in Reqs : CrudAddLine(r)
  \/ \E r \in Reqs : CrudInsertOrder(r)

\* a call that has arrived runs in a thread of its own and takes its next
\* step whenever that step is possible; arrivals are not forced
FairCalls ==
  \A r \in Reqs :
    /\ WF_vars(RouterGetCart(r))
    /\ WF_vars(RouterLoadItems(r))
    /\ WF_vars(RouterCheckStock(r))
    /\ WF_vars(CrudLoadCart(r))
    /\ WF_vars(CrudAddLine(r))
    /\ WF_vars(CrudInsertOrder(r))

SpecRace == InitRace /\ [][NextRace]_vars /\ FairCalls

\* ------------------------------------- the cart (routers/cart.py)
\* a row of table shopping_cart_items; the carts of the cart endpoints hold
\* their line items with the row id
Item(id, p, q) == [id |-> id, product_id |-> p, quantity |-> q]

\* the largest element of a non-empty set of integers
Max(S) == CHOOSE x \in S : \A y \in S : y <= x

\* the line items of all carts, and the one with a given id
ItemRows ==
  UNION {{cart_items[c][i] : i \in DOMAIN cart_items[c]} :
           c \in DOMAIN cart_items}

ItemIds == {x.id : x \in ItemRows}

ItemWithId(id) == CHOOSE x \in ItemRows : x.id = id

\* the cart that holds the line item id
CartOfItem(id) ==
  CHOOSE c \in DOMAIN cart_items :
    \E i \in DOMAIN cart_items[c] : cart_items[c][i].id = id

\* the id the database gives the next row of shopping_cart_items: one more
\* than any id given so far (ids of deleted rows are not given again)
NextItemId ==
  1 + Max({0} \cup ItemIds \cup {req[r].item : r \in Reqs})

\* the id the database gives the next row of shopping_carts
NextCartId == 1 + Max({0} \cup DOMAIN shopping_carts)

\* crud.get_user_cart, lines 585-601: the carts the query can return
UserCarts(u) == {c \in DOMAIN shopping_carts : shopping_carts[c] = u}

\* ShoppingCartItemCreate.quantity and ShoppingCartItemUpdate.quantity: ge=1
CartQuantityValid(q) == q >= 1

\* GET /cart/: the request of user u arrives
GetCartRequest(r, u) ==
  /\ Arrives(r)
  /\ req' = [req EXCEPT ![r] =
       [IdleReq EXCEPT !.op = "get_cart", !.pc = "cart", !.user = u]]
  /\ UNCHANGED <<db, initial_stock, deleted_orders, order_tracking, addresses>>

\* POST /cart/items: user u, body product_id = p and quantity = q; a
\* quantity below 1 fails the schema (422)
AddItemRequest(r, u, p, q) ==
  /\ Arrives(r)
  /\ req' = [req EXCEPT ![r] =
       [IdleReq EXCEPT !.op = "add_item", !.user = u, !.product = p,
          !.qty = q,
          !.pc = IF CartQuantityValid(q) THEN "stock" ELSE "done",
          !.outcome = IF CartQuantityValid(q)
                        THEN "none" ELSE "ValidationError"]]
  /\ UNCHANGED <<db, initial_stock, deleted_orders, order_tracking, addresses>>

\* add_item, lines 67-82: the product is looked up (404) and the quantity of
\* the request is compared with the stock of its Inventory row (400)
AddItemCheckStock(r) ==
  /\ req[r].op = "add_item" /\ req[r].pc = "stock"
  /\ LET p == req[r].product IN
       req' = IF p \notin products
                THEN Return(r, "NotFound")
              ELSE IF p \notin DOMAIN inventory \/ inventory[p] < req[r].qty
                THEN Return(r, "BadRequest")
              ELSE [req EXCEPT ![r].seen = inventory[p], ![r].pc = "cart"]
  /\ UNCHANGED <<db, initial_stock, deleted_orders, order_tracking, addresses>>

\* get_cart line 36, add_item line 85: the user's cart is looked up; the
\* query has no ORDER BY and returns any one of the user's carts
LazyCartLookup(r) ==
  /\ req[r].op \in {"get_cart", "add_item"} /\ req[r].pc = "cart"
  /\ IF UserCarts(req[r].user) = {}
       THEN req' = [req EXCEPT ![r].pc = "create"]
       ELSE \E c \in UserCarts(req[r].user) :
              req' = IF req[r].op = "get_cart"
                       THEN [Return(r, "Ok") EXCEPT ![r].cart = c]
                       ELSE [req EXCEPT ![r].cart = c, ![r].pc = "find"]
  /\ UNCHANGED <<db, initial_stock, deleted_orders, order_tracking, addresses>>

\* get_cart lines 37-38, add_item lines 86-87, crud.create_shopping_cart:
\* no cart was found, a cart row is inserted and committed
LazyCartCreate(r) ==
  /\ req[r].op \in {"get_cart", "add_item"} /\ req[r].pc = "create"
  /\ LET c == NextCartId IN
       /\ shopping_carts' = [x \in DOMAIN shopping_carts \cup {c} |->
                               IF x = c THEN req[r].user
                                        ELSE shopping_carts[x]]
       /\ cart_items' = [x \in DOMAIN cart_items \cup {c} |->
                           IF x = c THEN <<>> ELSE cart_items[x]]
       /\ req' = IF req[r].op = "get_cart"
                   THEN [Return(r, "Ok") EXCEPT ![r].cart = c]
                   ELSE [req EXCEPT ![r].cart = c, ![r].pc = "find"]
  /\ UNCHANGED <<products, price, inventory, orders, initial_stock,
                 deleted_orders, order_tracking, addresses>>

\* crud.add_item_to_cart, lines 645-649: a line item of the cart with the
\* product of the request is looked for
AddItemFind(r) ==
  /\ req[r].op = "add_item" /\ req[r].pc = "find"
  /\ LET same == {i \in DOMAIN cart_items[req[r].cart] :
                    cart_items[req[r].cart][i].product_id = req[r].product}
     IN  IF same = {}
           THEN req' = [req EXCEPT ![r].loaded = <<>>, ![r].pc = "commit"]
           ELSE \E i \in same :
                  req' = [req EXCEPT
                            ![r].loaded = <<cart_items[req[r].cart][i]>>,
                            ![r].pc = "commit"]
  /\ UNCHANGED <<db, initial_stock, deleted_orders, order_tracking, addresses>>

\* the line items of all carts with the quantity of row id set to q
WithQuantity(id, q) ==
  [c \in DOMAIN cart_items |->
     [i \in DOMAIN cart_items[c] |->
        IF cart_items[c][i].id = id
          THEN [cart_items[c][i] EXCEPT !.quantity = q]
          ELSE cart_items[c][i]]]

\* the line items of all carts without row id
WithoutItem(id) ==
  [c \in DOMAIN cart_items |->
     SelectSeq(cart_items[c], LAMBDA x : x.id # id)]

\* crud.add_item_to_cart, lines 651-667: the quantity of the line found is
\* raised by the quantity of the request (the sum is computed from the value
\* loaded; the row gone makes the UPDATE fail, 500), or a new line is inserted
AddItemCommit(r) ==
  /\ req[r].op = "add_item" /\ req[r].pc = "commit"
  /\ IF req[r].loaded = <<>>
       THEN /\ cart_items' =
                 [cart_items EXCEPT ![req[r].cart] =
                    Append(@, Item(NextItemId, req[r].product, req[r].qty))]
            /\ req' = [Return(r, "Created") EXCEPT ![r].item = NextItemId]
     ELSE IF req[r].loaded[1].id \notin ItemIds
       THEN cart_items' = cart_items /\ req' = Return(r, "InternalError")
     ELSE /\ cart_items' = WithQuantity(req[r].loaded[1].id,
                                        req[r].loaded[1].quantity + req[r].qty)
          /\ req' = Return(r, "Created")
  /\ UNCHANGED <<products, price, inventory, shopping_carts, orders,
                 initial_stock, deleted_orders, order_tracking, addresses>>

\* PUT /cart/items/{item_id}: user u, path item_id = id, body quantity = q
UpdateItemRequest(r, u, id, q) ==
  /\ Arrives(r)
  /\ req' = [req EXCEPT ![r] =
       [IdleReq EXCEPT !.op = "update_item", !.user = u, !.item = id,
          !.qty = q,
          !.pc = IF CartQuantityValid(q) THEN "check" ELSE "done",
          !.outcome = IF CartQuantityValid(q)
                        THEN "none" ELSE "ValidationError"]]
  /\ UNCHANGED <<db, initial_stock, deleted_orders, order_tracking, addresses>>

\* update_item lines 120-146, remove_item lines 177-192: the line item is
\* loaded (404), the owner of its cart compared (403) and, for update_item,
\* the new quantity compared with the stock of the Inventory row (400)
ItemCheck(r) ==
  /\ req[r].op \in {"update_item", "remove_item"} /\ req[r].pc = "check"
  /\ req' =
       IF req[r].item \notin ItemIds
         THEN Return(r, "NotFound")
       ELSE IF shopping_carts[CartOfItem(req[r].item)] # req[r].user
         THEN Return(r, "Forbidden")
       ELSE LET p == ItemWithId(req[r].item).product_id IN
         IF /\ req[r].op = "update_item"
            /\ (p \notin DOMAIN inventory \/ inventory[p] < req[r].qty)
           THEN Return(r, "BadRequest")
           ELSE [req EXCEPT
                   ![r].loaded = <<ItemWithId(req[r].item)>>,
                   ![r].seen = IF p \in DOMAIN inventory
                                 THEN inventory[p] ELSE 0,
                   ![r].pc = "apply"]
  /\ UNCHANGED <<db, initial_stock, deleted_orders, order_tracking, addresses>>

\* crud.update_cart_item, lines 685-696: the row is looked up again (gone:
\* the handler returns None, 500) and its quantity set to the body's
UpdateItemApply(r) ==
  /\ req[r].op = "update_item" /\ req[r].pc = "apply"
  /\ IF req[r].item \notin ItemIds
       THEN cart_items' = cart_items /\ req' = Return(r, "InternalError")
       ELSE /\ cart_items' = IF req[r].qty # req[r].loaded[1].quantity
                               THEN WithQuantity(req[r].item, req[r].qty)
                               ELSE cart_items
            /\ req' = Return(r, "Ok")
  /\ UNCHANGED <<products, price, inventory, shopping_carts, orders,
                 initial_stock, deleted_orders, order_tracking, addresses>>

\* DELETE /cart/items/{item_id}: user u, path item_id = id
RemoveItemRequest(r, u, id) ==
  /\ Arrives(r)
  /\ req' = [req EXCEPT ![r] =
       [IdleReq EXCEPT !.op = "remove_item", !.pc = "check", !.user = u,
                       !.item = id]]
  /\ UNCHANGED <<db, initial_stock, deleted_orders, order_tracking, addresses>>

\* crud.remove_item_from_cart, lines 712-722: the row is looked up again
\* (gone: None, 500) and deleted
RemoveItemApply(r) ==
  /\ req[r].op = "remove_item" /\ req[r].pc = "apply"
  /\ IF req[r].item \notin ItemIds
       THEN cart_items' = cart_items /\ req' = Return(r, "InternalError")
       ELSE cart_items' = WithoutItem(req[r].item) /\ req' = Return(r, "Ok")
  /\ UNCHANGED <<products, price, inventory, shopping_carts, orders,
                 initial_stock, deleted_orders, order_tracking, addresses>>

\* The cart endpoints: user 1 has a cart with one unit of product 1, the
\* other users have no cart yet; every product has one unit in stock.
InitCart ==
  /\ products = ProductIds
  /\ price = [p \in ProductIds |-> 1]
  /\ inventory = [p \in ProductIds |-> 1]
  /\ shopping_carts = [c \in {1} |-> 1]
  /\ cart_items = [c \in {1} |-> <<Item(1, 1, 1)>>]
  /\ orders = <<>>
  /\ req = [r \in Reqs |-> IdleReq]
  /\ initial_stock = inventory
  /\ deleted_orders = {}
  /\ order_tracking = <<>>
  /\ addresses = <<>>

NextCart ==
  \/ \E r \in Reqs, u \in Users : GetCartRequest(r, u)
  \/ \E r \in Reqs, u \in Users, p \in 1..(NumProducts + 1), q \in 0..MaxQty :
       AddItemRequest(r, u, p, q)
  \/ \E r \in Reqs : AddItemCheckStock(r)
  \/ \E r \in Reqs : LazyCartLookup(r)
  \/ \E r \in Reqs : LazyCartCreate(r)
  \/ \E r \in Reqs : AddItemFind(r)
  \/ \E r \in Reqs : AddItemCommit(r)
  \/ \E r \in Reqs, u \in Users, id \in 1..MaxItems, q \in 0..MaxQty :
       UpdateItemRequest(r, u, id, q)
  \/ \E r \in Reqs : ItemCheck(r)
  \/ \E r \in Reqs : UpdateItemApply(r)
  \/ \E r \in Reqs, u \in Users, id \in 1..MaxItems :
       RemoveItemRequest(r, u, id)
  \/ \E r \in Reqs : RemoveItemApply(r)

SpecCart == InitCart /\ [][NextCart]_vars

\* ------------------------------- POST /inventory/ (routers/inventory.py)
\* InventoryCreate.quantity_in_stock: ge=0
InventoryCreateValid(q) == q >= 0

\* the constraint left out: a second row of the product is accepted
NoUniqueProduct(p) == FALSE

\* models.Inventory.product_id, unique=True: the insert of a second row of
\* product p violates the constraint
InventoryProductTaken(p) == p \in DOMAIN inventory

\* body product_id = p, quantity_in_stock = q; a negative q fails the
\* schema (422)
CreateInventoryRequest(r, p, q) ==
  /\ Arrives(r)
  /\ req' = [req EXCEPT ![r] =
       [IdleReq EXCEPT !.op = "create_inventory", !.product = p, !.qty = q,
          !.pc = IF InventoryCreateValid(q) THEN "check" ELSE "done",
          !.outcome = IF InventoryCreateValid(q)
                        THEN "none" ELSE "ValidationError"]]
  /\ UNCHANGED <<db, initial_stock, deleted_orders, order_tracking, addresses>>

\* lines 41-54: the product is looked up (404) and an Inventory row of the
\* product looked for (400)
CreateInventoryCheck(r) ==
  /\ req[r].op = "create_inventory" /\ req[r].pc = "check"
  /\ req' = IF req[r].product \notin products
              THEN Return(r, "NotFound")
            ELSE IF req[r].product \in DOMAIN inventory
              THEN Return(r, "BadRequest")
            ELSE [req EXCEPT ![r].pc = "insert"]
  /\ UNCHANGED <<db, initial_stock, deleted_orders, order_tracking, addresses>>

\* crud.create_inventory, lines 1271-1281: the row is added and committed;
\* the commit raises IntegrityError (500) when the product is gone or has a
\* row by now
CreateInventoryInsert(r) ==
  /\ req[r].op = "create_inventory" /\ req[r].pc = "insert"
  /\ LET p == req[r].product IN
       IF p \notin products \/ InventoryProductTaken(p)
         THEN inventory' = inventory /\ req' = Return(r, "InternalError")
         ELSE \/ /\ inventory' = [x \in DOMAIN inventory \cup {p} |->
                                    IF x = p THEN req[r].qty ELSE inventory[x]]
                 /\ req' = Return(r, "Created")
              \/ /\ inventory' = inventory
                 /\ req' = Return(r, "Unavailable")
  /\ UNCHANGED <<products, price, shopping_carts, cart_items, orders,
                 initial_stock, deleted_orders, order_tracking, addresses>>

\* The creation of Inventory rows: any of the products may have its row, the
\* carts are empty.
InitInventoryRows ==
  /\ products = ProductIds
  /\ price = [p \in ProductIds |-> 1]
  /\ inventory \in UNION {[S -> 0..MaxStock] : S \in SUBSET ProductIds}
  /\ shopping_carts = [c \in Users |-> c]
  /\ cart_items = [c \in Users |-> <<>>]
  /\ orders = <<>>
  /\ req = [r \in Reqs |-> IdleReq]
  /\ initial_stock = inventory
  /\ deleted_orders = {}
  /\ order_tracking = <<>>
  /\ addresses = <<>>

NextInventoryRows ==
  \/ \E r \in Reqs, p \in InventoryIds, q \in (0 - 1)..MaxStock :
       CreateInventoryRequest(r, p, q)
  \/ \E r \in Reqs : CreateInventoryCheck(r)
  \/ \E r \in Reqs : CreateInventoryInsert(r)

SpecInventoryRows == InitInventoryRows /\ [][NextInventoryRows]_vars

\* --------------------------------------------------------- order tracking
\* routers/order_tracking.py and the tracking functions of crud.py; every
\* handler below depends on require_admin, the calls are an administrator's

\* models.OrderTracking: order_id, status, location, notes (the timestamp is
\* set once by the database and never written again)
TrackingRow(o, st, loc, n) ==
  [order_id |-> o, status |-> st, location |-> loc, notes |-> n]

TrackingFields == {"status", "location", "notes"}

\* the values an OrderTrackingUpdate body carries for the fields it sets
TrackingUpdateValue == [status |-> "delivered", location |-> "hub", notes |-> "n1"]

TrackingIds == 1..(MaxTracking + 2)

\* the tracking id sequence never hands out an id twice
NextTrackingId ==
  1 + Max({0} \cup DOMAIN order_tracking \cup {req[k].item : k \in Reqs})

\* POST /tracking/
CreateTrackingRequest(r, o) ==
  /\ Arrives(r)
  /\ req' = [req EXCEPT ![r] =
       [IdleReq EXCEPT !.op = "create_tracking", !.pc = "check", !.order = o]]
  /\ UNCHANGED <<db, initial_stock, deleted_orders, order_tracking, addresses>>

\* create_tracking_entry, lines 41-46: the order has to exist
CreateTrackingCheck(r) ==
  /\ req[r].op = "create_tracking" /\ req[r].pc = "check"
  /\ req' = IF ~OrderExists(req[r].order)
              THEN Return(r, "NotFound")
              ELSE [req EXCEPT ![r].pc = "insert"]
  /\ UNCHANGED <<db, initial_stock, deleted_orders, order_tracking, addresses>>

\* crud.create_order_tracking: the row is inserted and committed; the foreign
\* key on order_id rejects the insert when the order was deleted meanwhile
CreateTrackingInsert(r) ==
  /\ req[r].op = "create_tracking" /\ req[r].pc = "insert"
  /\ IF ~OrderExists(req[r].order)
       THEN /\ order_tracking' = order_tracking
            /\ req' = Return(r, "InternalError")
       ELSE /\ order_tracking' =
                 [t \in DOMAIN order_tracking \cup {NextTrackingId} |->
                    IF t = NextTrackingId
                      THEN TrackingRow(req[r].order, "shipped", "depot", "n0")
                      ELSE order_tracking[t]]
            /\ req' = [Return(r, "Created") EXCEPT ![r].item = NextTrackingId]
  /\ UNCHANGED <<db, initial_stock, deleted_orders, addresses>>

\* PUT /tracking/{tracking_id} with the set F of fields the body sets
UpdateTrackingRequest(r, t, F) ==
  /\ Arrives(r)
  /\ req' = [req EXCEPT ![r] =
       [IdleReq EXCEPT !.op = "update_tracking", !.pc = "load", !.item = t,
                       !.fields = F]]
  /\ UNCHANGED <<db, initial_stock, deleted_orders, order_tracking, addresses>>

\* DELETE /tracking/{tracking_id}
DeleteTrackingRequest(r, t) ==
  /\ Arrives(r)
  /\ req' = [req EXCEPT ![r] =
       [IdleReq EXCEPT !.op = "delete_tracking", !.pc = "load", !.item = t]]
  /\ UNCHANGED <<db, initial_stock, deleted_orders, order_tracking, addresses>>

\* crud.update_order_tracking and crud.delete_order_tracking, first lines:
\* get_order_tracking loads the entry, None makes the handler answer 404
TrackingLoad(r) ==
  /\ req[r].op \in {"update_tracking", "delete_tracking"} /\ req[r].pc = "load"
  /\ req' = IF req[r].item \notin DOMAIN order_tracking
              THEN Return(r, "NotFound")
              ELSE [req EXCEPT ![r].loaded = <<order_tracking[req[r].item]>>,
                               ![r].pc = "apply"]
  /\ UNCHANGED <<db, initial_stock, deleted_orders, order_tracking, addresses>>

\* crud.update_order_tracking, setattr loop and commit: the columns whose new
\* value differs from the loaded one are written; a row deleted since the
\* load makes the commit or the refresh raise
UpdateTrackingApply(r) ==
  /\ req[r].op = "update_tracking" /\ req[r].pc = "apply"
  /\ IF req[r].item \notin DOMAIN order_tracking
       THEN /\ order_tracking' = order_tracking
            /\ req' = Return(r, "InternalError")
       ELSE /\ order_tracking' = [order_tracking EXCEPT ![req[r].item] =
                 [f \in DOMAIN @ |->
                    IF /\ f \in req[r].fields
                       /\ TrackingUpdateValue[f] # req[r].loaded[1][f]
                      THEN TrackingUpdateValue[f]
                      ELSE @[f]]]
            /\ req' = Return(r, "Ok")
  /\ UNCHANGED <<db, initial_stock, deleted_orders, addresses>>

\* crud.delete_order_tracking, delete and commit: the row is removed; a row
\* deleted since the load makes the commit raise
DeleteTrackingApply(r) ==
  /\ req[r].op = "delete_tracking" /\ req[r].pc = "apply"
  /\ IF req[r].item \notin DOMAIN order_tracking
       THEN /\ order_tracking' = order_tracking
            /\ req' = Return(r, "InternalError")
       ELSE /\ order_tracking' =
                 [t \in DOMAIN order_tracking \ {req[r].item} |->
                    order_tracking[t]]
            /\ req' = Return(r, "Ok")
  /\ UNCHANGED <<db, initial_stock, deleted_orders, addresses>>

\* one order of user 1 with its first tracking entries
InitTracking ==
  /\ products = ProductIds
  /\ price = [p \in ProductIds |-> 1]
  /\ inventory = [p \in ProductIds |-> MaxStock]
  /\ shopping_carts = [c \in Users |-> c]
  /\ cart_items = [c \in Users |-> <<>>]
  /\ orders = [o \in 1..MaxOrders |-> OrderRow(1, 1, 1)]
  /\ req = [r \in Reqs |-> IdleReq]
  /\ initial_stock = inventory
  /\ deleted_orders = {}
  /\ order_tracking =
       [t \in 1..MaxTracking |-> TrackingRow(1, "processing", "depot", "n0")]
  /\ addresses = <<>>

NextTracking ==
  \/ \E r \in Reqs, o \in 1..(MaxOrders + 1) : CreateTrackingRequest(r, o)
  \/ \E r \in Reqs : CreateTrackingCheck(r)
  \/ \E r \in Reqs : CreateTrackingInsert(r)
  \/ \E r \in Reqs, t \in TrackingIds, F \in SUBSET TrackingFields :
       UpdateTrackingRequest(r, t, F)
  \/ \E r \in Reqs, t \in TrackingIds : DeleteTrackingRequest(r, t)
  \/ \E r \in Reqs : TrackingLoad(r)
  \/ \E r \in Reqs : UpdateTrackingApply(r)
  \/ \E r \in Reqs : DeleteTrackingApply(r)
  \/ \E r \in Reqs, u \in Users, o \in 1..MaxOrders : DeleteOrderRequest(r, u, o)
  \/ \E r \in Reqs : DeleteOrderCheck(r)
  \/ \E r \in Reqs : DeleteOrderApply(r)

SpecTracking == InitTracking /\ [][NextTracking]_vars

\* -------------------------------------------------------------- addresses
\* routers/addresses.py with crud.create_address and crud.update_address; the
\* street, city and the other text columns play no part in the default flag

\* models.Address: the owner and the is_default flag
AddressRow(u, d) == [user_id |-> u, is_default |-> d]

\* the is_default values a request body carries
DefaultInputs == {"unset", "true", "false"}

AddressIds == 1..(MaxAddresses + NumReqs)

\* the default addresses of user u
DefaultsOf(u) ==
  {a \in DOMAIN addresses :
     addresses[a].user_id = u /\ addresses[a].is_default}

\* the rows of set S carry is_default = false
WithCleared(S) ==
  [a \in DOMAIN addresses |->
     IF a \in S THEN [addresses[a] EXCEPT !.is_default = FALSE]
                ELSE addresses[a]]

\* a row updated by a transaction that has not committed is locked: another
\* transaction's UPDATE of that row waits for the commit
LockedByOther(r, a) ==
  \E k \in Reqs \ {r} : req[k].pc = "commit" /\ a \in req[k].cleared

\* POST /addresses/ by user u
CreateAddressRequest(r, u, d) ==
  /\ Arrives(r)
  /\ req' = [req EXCEPT ![r] =
       [IdleReq EXCEPT !.op = "create_address", !.user = u,
                       !.is_default = IF d THEN "true" ELSE "false",
                       !.pc = IF d THEN "clear" ELSE "commit"]]
  /\ UNCHANGED <<db, initial_stock, deleted_orders, order_tracking, addresses>>

\* PUT /addresses/{address_id} by user u
UpdateAddressRequest(r, u, a, d) ==
  /\ Arrives(r)
  /\ req' = [req EXCEPT ![r] =
       [IdleReq EXCEPT !.op = "update_address", !.pc = "check", !.user = u,
                       !.item = a, !.is_default = d]]
  /\ UNCHANGED <<db, initial_stock, deleted_orders, order_tracking, addresses>>

\* update_address, lines 123-135, and crud.update_address, lines 977-979: the
\* address is loaded, a missing one answers 404, another user's 403
UpdateAddressCheck(r) ==
  /\ req[r].op = "update_address" /\ req[r].pc = "check"
  /\ req' = IF req[r].item \notin DOMAIN addresses
              THEN Return(r, "NotFound")
            ELSE IF addresses[req[r].item].user_id # req[r].user
              THEN Return(r, "Forbidden")
            ELSE [req EXCEPT ![r].loaded = <<addresses[req[r].item]>>,
                             ![r].pc = IF req[r].is_default = "true"
                                         THEN "clear" ELSE "commit"]
  /\ UNCHANGED <<db, initial_stock, deleted_orders, order_tracking, addresses>>

\* the committed rows the bulk UPDATE of call r matches: crud.create_address,
\* lines 941-944, every default of the user; crud.update_address, lines
\* 983-987, every default of the address's owner but the address itself
AddressesToClear(r) ==
  IF req[r].op = "create_address"
    THEN DefaultsOf(req[r].user)
    ELSE DefaultsOf(req[r].loaded[1].user_id) \ {req[r].item}

\* the bulk UPDATE runs inside the open transaction: it matches the committed
\* rows and waits when one of them is locked
AddressClear(r) ==
  /\ req[r].op \in {"create_address", "update_address"} /\ req[r].pc = "clear"
  /\ req' = [req EXCEPT ![r].cleared = AddressesToClear(r),
                        ![r].pc = IF \E a \in AddressesToClear(r) :
                                        LockedByOther(r, a)
                                    THEN "wait" ELSE "commit"]
  /\ UNCHANGED <<db, initial_stock, deleted_orders, order_tracking, addresses>>

\* the lock is released: the waiting UPDATE looks at its rows again and
\* changes those that are still default; it sees no row inserted meanwhile
AddressClearResume(r) ==
  /\ req[r].op \in {"create_address", "update_address"} /\ req[r].pc = "wait"
  /\ \A a \in req[r].cleared : ~LockedByOther(r, a)
  /\ req' = [req EXCEPT ![r].cleared =
                          {a \in @ : addresses[a].is_default},
                        ![r].pc = "commit"]
  /\ UNCHANGED <<db, initial_stock, deleted_orders, order_tracking, addresses>>

\* crud.create_address, lines 946-958: the row is inserted and the
\* transaction, with its bulk UPDATE, commits
CreateAddressCommit(r) ==
  /\ req[r].op = "create_address" /\ req[r].pc = "commit"
  /\ addresses' = Append(WithCleared(req[r].cleared),
                         AddressRow(req[r].user, req[r].is_default = "true"))
  /\ req' = [Return(r, "Created") EXCEPT ![r].item = Len(addresses) + 1]
  /\ UNCHANGED <<db, initial_stock, deleted_orders, order_tracking>>

\* crud.update_address, lines 989-993: is_default is written when the body
\* carries it with a value other than the loaded one
UpdateWritesDefault(r) ==
  /\ req[r].is_default # "unset"
  /\ (req[r].is_default = "true") # req[r].loaded[1].is_default

\* crud.update_address, lines 989-995: the address's own row is written and
\* the transaction, with its bulk UPDATE, commits
UpdateAddressCommit(r) ==
  /\ req[r].op = "update_address" /\ req[r].pc = "commit"
  /\ UpdateWritesDefault(r) => ~LockedByOther(r, req[r].item)
  /\ addresses' =
       IF UpdateWritesDefault(r)
         THEN [WithCleared(req[r].cleared) EXCEPT ![req[r].item].is_default =
                 (req[r].is_default = "true")]
         ELSE WithCleared(req[r].cleared)
  /\ req' = Return(r, "Ok")
  /\ UNCHANGED <<db, initial_stock, deleted_orders, order_tracking>>

\* the address table holds at most MaxAddresses rows, no user with two defaults
InitAddress ==
  /\ products = ProductIds
  /\ price = [p \in ProductIds |-> 1]
  /\ inventory = [p \in ProductIds |-> MaxStock]
  /\ shopping_carts = <<>>
  /\ cart_items = <<>>
  /\ orders = <<>>
  /\ req = [r \in Reqs |-> IdleReq]
  /\ initial_stock = inventory
  /\ deleted_orders = {}
  /\ order_tracking = <<>>
  /\ addresses \in UNION {[1..n -> {AddressRow(u, d) : u \in Users,
                                                      d \in BOOLEAN}] :
                           n \in 0..MaxAddresses}
  /\ \A u \in Users : Cardinality(DefaultsOf(u)) <= 1

NextAddress ==
  \/ \E r \in Reqs, u \in Users, d \in BOOLEAN : CreateAddressRequest(r, u, d)
  \/ \E r \in Reqs, u \in Users, a \in AddressIds, d \in DefaultInputs :
       UpdateAddressRequest(r, u, a, d)
  \/ \E r \in Reqs : UpdateAddressCheck(r)
  \/ \E r \in Reqs : AddressClear(r)
  \/ \E r \in Reqs : AddressClearResume(r)
  \/ \E r \in Reqs : CreateAddressCommit(r)
  \/ \E r \in Reqs : UpdateAddressCommit(r)

SpecAddress == InitAddress /\ [][NextAddress]_vars

\* ------------------------------------------------ vocabulary of the properties
\* the two ways an order is placed
OrderOps == {"order_request", "create_order"}

Arrived(r)  == req[r].pc # "idle"
Returned(r) == req[r].pc = "done"
Created(r)  == Returned(r) /\ req[r].outcome = "Created"
Failed(r)   == Returned(r) /\ req[r].outcome # "Created"

\* every call that has arrived has returned
Quiescent == \A r \in Reqs : Arrived(r) => Returned(r)

\* no call of an inventory endpoint has arrived: only orders touch the stock
OnlyOrders == \A r \in Reqs : Arrived(r) => req[r].op \in OrderOps

RECURSIVE QuantityOf(_, _)
\* the units of product p among the line items s
QuantityOf(s, p) ==
  IF s = <<>> THEN 0
  ELSE (IF s[1].product_id = p THEN s[1].quantity ELSE 0)
         + QuantityOf(Tail(s), p)

RECURSIVE OrderedUnits(_, _)
\* the units of product p in the carts of the calls S, as each call read it
OrderedUnits(S, p) ==
  IF S = {} THEN 0
  ELSE LET r == CHOOSE x \in S : TRUE IN
         QuantityOf(req[r].items, p) + OrderedUnits(S \ {r}, p)

CreatedCalls == {r \in Reqs : req[r].op \in OrderOps /\ Created(r)}
FailedCalls  == {r \in Reqs : req[r].op \in OrderOps /\ Failed(r)}

\* ------------------------------------------------------------------- C1
\* C1: in every reachable state every Inventory row has
\* quantity_in_stock >= 0, and so has every value a restock call holds in
\* its session between reading the row and committing the sum.
C1_StockNeverNegative ==
  /\ \A p \in DOMAIN inventory : inventory[p] >= 0
  /\ \A r \in Reqs :
       (req[r].op = "restock" /\ req[r].pc = "commit")
         => req[r].seen + req[r].qty >= 0

\* an order was placed and an inventory endpoint has written the stock
C1_Witness ==
  \E r1, r2 \in Reqs :
    /\ req[r1].op = "create_order" /\ Created(r1)
    /\ req[r2].op \in {"restock", "update_inventory"}
    /\ Returned(r2) /\ req[r2].outcome = "Ok"
    /\ inventory # initial_stock

\* ------------------------------------------------------------------- C2
\* C2: when all NumReqs calls are create_order calls by different users, each
\* from the user's own cart holding one line of quantity 1 of the same
\* product p, the stock of p started at K < NumReqs and all calls have
\* returned, then exactly K calls created an order, the other NumReqs - K
\* failed, and the stock of p is 0.
C2_ExactlyStockManySucceed ==
  \A p \in ProductIds :
    ( /\ \A r \in Reqs :
           /\ req[r].op = "create_order" /\ Returned(r)
           /\ req[r].cart \in DOMAIN shopping_carts
           /\ shopping_carts[req[r].cart] = req[r].user
           /\ cart_items[req[r].cart] = <<Line(p, 1)>>
      /\ \A r1, r2 \in Reqs : r1 # r2 => req[r1].cart # req[r2].cart
      /\ p \in DOMAIN inventory
      /\ initial_stock[p] < NumReqs )
    => /\ Cardinality(CreatedCalls) = initial_stock[p]
       /\ Cardinality(FailedCalls) = NumReqs - initial_stock[p]
       /\ inventory[p] = 0

\* ------------------------------------------------------------------- C3
\* C3: once all calls have returned, and all of them were order placements,
\* the stock of each product equals its initial stock K minus the units of
\* it in the carts of the calls that created an order, and no more than K
\* calls created an order for it.
C3_FinalStockIsInitialMinusOrdered ==
  (OnlyOrders /\ Quiescent) =>
    \A p \in DOMAIN inventory :
      /\ inventory[p] = initial_stock[p] - OrderedUnits(CreatedCalls, p)
      /\ Cardinality({r \in CreatedCalls : QuantityOf(req[r].items, p) > 0})
           <= initial_stock[p]

\* ------------------------------------------------------------------- C4
\* C4: in every committed state, while only orders touch the stock, the
\* units missing from the stock of each product are exactly the units of it
\* on the carts of the orders that exist: no order without its decrement, no
\* decrement without its order.
C4_OrderIffDecrement ==
  OnlyOrders =>
    /\ Len(orders) = Cardinality(CreatedCalls)
    /\ \A p \in DOMAIN inventory :
         initial_stock[p] - inventory[p] = OrderedUnits(CreatedCalls, p)

\* ------------------------------------------------------------------- C5
\* the step of this transition is taken by call r, an order placement
OrderStep(r) == req'[r] # req[r] /\ req'[r].op \in OrderOps

C6_SuccessDecrementsStock ==
  \A r \in Reqs :
    ( /\ req[r].op \in OrderOps /\ Created(r)
      /\ \A k \in Reqs \ {r} : ~Arrived(k) )
    => \A p \in DOMAIN inventory :
         inventory[p] = initial_stock[p] - QuantityOf(req[r].items, p)

\* ------------------------------------------------------------------- C7
\* C7: when a single order placement has arrived and has returned the
\* created order, its cart row exists and has no items.
C7_SuccessClearsCart ==
  \A r \in Reqs :
    ( /\ req[r].op \in OrderOps /\ Created(r)
      /\ \A k \in Reqs \ {r} : ~Arrived(k) )
    => /\ req[r].cart \in DOMAIN shopping_carts
       /\ cart_items[req[r].cart] = <<>>

RECURSIVE FullTotal(_)
\* price times quantity summed over all the line items s
FullTotal(s) ==
  IF s = <<>> THEN 0
  ELSE price[s[1].product_id] * s[1].quantity + FullTotal(Tail(s))

\* some line item the call holds names a product that is gone
HoldsMissingProduct(r) ==
  \E i \in 1..MaxItems :
    i \in DOMAIN req[r].items /\ req[r].items[i].product_id \notin products

\* C10: a POST /orders/ request that checks its line items while one of them
\* names a product that no longer exists returns NotFound, and an order that
\* is created has as total the amounts of all the line items of its cart,
\* none omitted.
C10_MissingProductNotFound ==
  [][\A r \in Reqs :
       (OrderStep(r) /\ req[r].pc # "done" /\ req'[r].pc = "done")
       => /\ (req[r].op = "order_request" /\ req[r].pc = "stock"
                /\ HoldsMissingProduct(r))
               => req'[r].outcome = "NotFound"
          /\ req'[r].outcome = "Created"
               => req'[r].total = FullTotal(req'[r].items)]_vars

\* ------------------------------------------------------------------ C11
\* C11: the Order row of every call that created an order carries as
\* total_amount the sum, over all the line items the call read from the cart,
\* of the product's price times the line's quantity.
C11_TotalIsSumOfLines ==
  \A r \in CreatedCalls :
    \E i \in DOMAIN orders :
      /\ orders[i].user_id = req[r].user
      /\ orders[i].cart_id = req[r].cart
      /\ orders[i].total_amount = FullTotal(req[r].items)

\* ------------------------------------------------------------------ C12
\* the restock calls that returned the updated row
RestockCalls ==
  {r \in Reqs : req[r].op = "restock" /\ Returned(r) /\ req[r].outcome = "Ok"}

RECURSIVE RestockedUnits(_, _)
\* the units the restock calls S added to product p
RestockedUnits(S, p) ==
  IF S = {} THEN 0
  ELSE LET r == CHOOSE x \in S : TRUE IN
         (IF req[r].product = p THEN req[r].qty ELSE 0)
           + RestockedUnits(S \ {r}, p)

\* only restock calls and order placements have arrived
OnlyRestocksAndOrders ==
  \A r \in Reqs : Arrived(r) => req[r].op \in OrderOps \cup {"restock"}

\* C12: when restock calls and order placements, interleaved in any way, have
\* all returned, the stock of every product is its initial stock plus the
\* quantities the successful restocks added minus the quantities the
\* successful orders reserved: no restock is lost.
C12_NoLostRestock ==
  (Quiescent /\ OnlyRestocksAndOrders)
    => \A p \in DOMAIN inventory :
         inventory[p] = initial_stock[p] + RestockedUnits(RestockCalls, p)
                          - OrderedUnits(CreatedCalls, p)

\* ------------------------------------------------------------------ C13
\* C13: a restock call whose quantity_to_add is zero or negative returns a
\* validation error as it arrives, a restock call with a valid quantity for
\* an id that no Inventory row has returns NotFound at its lookup, and no
\* step of either call changes an Inventory row.
C13_BadRestockRejected ==
  [][\A r \in Reqs :
       (req'[r] # req[r] /\ req'[r].op = "restock")
       => /\ req'[r].qty <= 0
               => /\ req'[r].pc = "done"
                  /\ req'[r].outcome = "ValidationError"
                  /\ inventory' = inventory
          /\ (req'[r].qty > 0 /\ req'[r].product \notin DOMAIN inventory)
               => /\ req'[r].pc # "commit"
                  /\ req[r].pc = "read"
                       => req'[r].pc = "done" /\ req'[r].outcome = "NotFound"
                  /\ inventory' = inventory]_vars

\* one restock call was refused for its quantity, another for its id, and
\* the stock is as it was
C13_Witness ==
  \E r1, r2 \in Reqs :
    /\ req[r1].op = "restock" /\ req[r1].qty <= 0
    /\ Returned(r1) /\ req[r1].outcome = "ValidationError"
    /\ req[r2].op = "restock" /\ req[r2].qty > 0
    /\ req[r2].product \notin DOMAIN inventory
    /\ Returned(r2) /\ req[r2].outcome = "NotFound"
    /\ inventory = initial_stock

\* ------------------------------------------------------------------ C14
\* the ids of the Order rows that exist
OrderIds == (1..Len(orders)) \ deleted_orders

\* an update_order call sent a string that is not an enumerated status
SentUnknownStatus(r) ==
  /\ req[r].op = "update_order"
  /\ req[r].order_status \notin ValidStatuses \cup {"unset", "null"}

\* C14: whatever create_order and update_order calls have run, every order
\* holds one of the statuses pending, confirmed, shipped, delivered,
\* cancelled; and an update_order call by the owner of an existing order
\* that sends any other string as order_status, the empty string included,
\* is rejected with a validation error at its check and changes no order.
C14_StatusAlwaysValid ==
  [][/\ \A o \in (1..Len(orders')) \ deleted_orders' :
          orders'[o].order_status \in ValidStatuses
     /\ \A r \in Reqs :
          ( /\ SentUnknownStatus(r) /\ req[r].pc = "check"
            /\ req'[r] # req[r]
            /\ OrderExists(req[r].order)
            /\ orders[req[r].order].user_id = req[r].user )
          => /\ req'[r].pc = "done" /\ req'[r].outcome = "BadRequest"
             /\ orders' = orders]_vars

\* ------------------------------------------------------------------ C15
\* C15: a delete_order call that finds the order shipped or delivered is
\* rejected at its check, and so is a call by a user who does not own the
\* order; the rejected call deletes nothing, and every row that is deleted
\* is deleted by its owner's call, which found it in another status.
C15_ShippedOrderNotDeleted ==
  [][/\ \A r \in Reqs :
          ( /\ req[r].op = "delete_order" /\ req[r].pc = "check"
            /\ req'[r] # req[r]
            /\ OrderExists(req[r].order) )
          => /\ orders[req[r].order].user_id # req[r].user
                  => /\ req'[r].pc = "done" /\ req'[r].outcome = "Forbidden"
                     /\ UNCHANGED <<orders, deleted_orders, order_tracking, addresses>>
             /\ ( /\ orders[req[r].order].user_id = req[r].user
                  /\ orders[req[r].order].order_status
                       \in {"shipped", "delivered"} )
                  => /\ req'[r].pc = "done" /\ req'[r].outcome = "BadRequest"
                     /\ UNCHANGED <<orders, deleted_orders, order_tracking, addresses>>
     /\ \A o \in deleted_orders' \ deleted_orders :
          \E r \in Reqs :
            /\ req[r].op = "delete_order" /\ req[r].pc = "apply"
            /\ req[r].order = o /\ req'[r].outcome = "Ok"
            /\ orders[o].user_id = req[r].user
            /\ req[r].loaded[1].order_status \notin {"shipped", "delivered"}
    ]_vars

\* the owner's call to delete a shipped or delivered order and another
\* user's call to delete it were both rejected, and the order is there
C15_Witness ==
  \E r1, r2 \in Reqs :
    /\ req[r1].op = "delete_order" /\ req[r2].op = "delete_order"
    /\ req[r1].order = 1 /\ req[r2].order = 1
    /\ Returned(r1) /\ req[r1].outcome = "BadRequest"
    /\ Returned(r2) /\ req[r2].outcome = "Forbidden"
    /\ 1 \in OrderIds
    /\ orders[1].order_status \in {"shipped", "delivered"}

\* ------------------------------------------------------------------ C16
\* C16: an update_order call by the owner that asks for status cancelled and
\* finds the order shipped or delivered is rejected at its check, and no step
\* takes an order from shipped or delivered to cancelled.
C16_ShippedOrderNotCancelled ==
  [][/\ \A r \in Reqs :
          ( /\ req[r].op = "update_order" /\ req[r].pc = "check"
            /\ req[r].order_status = "cancelled"
            /\ req'[r] # req[r]
            /\ OrderExists(req[r].order)
            /\ orders[req[r].order].user_id = req[r].user
            /\ orders[req[r].order].order_status
                 \in {"shipped", "delivered"} )
          => /\ req'[r].pc = "done"
             /\ req'[r].outcome \in {"BadRequest", "Forbidden"}
     /\ \A o \in OrderIds :
          orders[o].order_status \in {"shipped", "delivered"}
            => orders'[o].order_status # "cancelled"]_vars

\* ------------------------------------------------------------------ C17
\* C17: the step that returns a created order is, for every product on the
\* call's cart, both the check and the decrement: the stock before the step
\* covers the units of the cart and the stock after it is lower by them, so
\* no other call's write comes between the check and the decrement.
C17_CheckAndDecrementAtomic ==
  [][\A r \in Reqs :
       (OrderStep(r) /\ req'[r].pc = "done" /\ req'[r].outcome = "Created")
       => \A p \in DOMAIN inventory :
            /\ inventory[p] >= QuantityOf(req[r].items, p)
            /\ inventory'[p] = inventory[p] - QuantityOf(req[r].items, p)]_vars

\* ------------------------------------------------------------------ C18
\* C18: an order placement shows nothing of its work before its last step,
\* and the step that commits it shows all of it together: the reservations
\* of all its line items, the Order row and the emptied cart; so no Order row
\* is stored without its reservations and no cart is emptied without its
\* Order row.
C18_PhasesInOrder ==
  [][\A r \in Reqs :
       OrderStep(r)
       => IF req'[r].pc = "done" /\ req'[r].outcome = "Created"
            THEN /\ \A p \in DOMAIN inventory :
                      inventory'[p]
                        = inventory[p] - QuantityOf(req[r].items, p)
                 /\ Len(orders') = Len(orders) + 1
                 /\ cart_items'[req[r].cart] = <<>>
            ELSE UNCHANGED <<inventory, cart_items, orders>>]_vars

\* ------------------------------------------------------------------ C19
\* C19: under a fair scheduler every order placement that has arrived
\* returns, with the created order or with an error; none waits forever,
\* also not two concurrent calls whose carts name the same two products in
\* opposite orders.
C19_EveryCallEnds ==
  \A r \in Reqs : (Arrived(r) /\ req[r].op \in OrderOps) ~> Returned(r)

\* two create_order calls on carts that list products 1 and 2 in opposite
\* orders have both returned
C19_Witness ==
  \E r1, r2 \in Reqs :
    /\ req[r1].op = "create_order" /\ req[r2].op = "create_order"
    /\ req[r1].items = <<Line(1, 1), Line(2, 1)>>
    /\ req[r2].items = <<Line(2, 1), Line(1, 1)>>
    /\ Returned(r1) /\ Returned(r2)

\* ------------------------------------------------------------------ C20
\* C20: no two order placements on the same cart, one after the other or
\* concurrent, both return a created order while no item is added to the
\* cart: the items of a cart go into at most one order.
C20_CartConsumedOnce ==
  \A r1, r2 \in CreatedCalls :
    r1 # r2 => req[r1].cart # req[r2].cart

\* ------------------------------------------------------------------ C21
\* C21: every step that changes the quantity_in_stock of a product is taken
\* by a restock call, which raises it by its quantity_to_add, or by an order
\* placement, which lowers it by the units of its cart; no other call, and
\* update_inventory in particular, writes it.
C21_StockChangesByRestockOrOrder ==
  [][\A p \in DOMAIN inventory :
       (p \in DOMAIN inventory' /\ inventory'[p] # inventory[p])
       => \E r \in Reqs :
            /\ req'[r] # req[r]
            /\ \/ /\ req[r].op = "restock"
                  /\ inventory'[p] = inventory[p] + req[r].qty
               \/ /\ req[r].op \in OrderOps
                  /\ inventory'[p]
                       = inventory[p] - QuantityOf(req[r].items, p)]_vars

\* ------------------------------------------------------------------ C22
\* C22: no step changes, of an order that exists, anything but its
\* order_status: user_id, cart_id, address and total_amount stay as the
\* order was created with, whatever update_order calls run.
C22_OnlyStatusChanges ==
  [][\A o \in OrderIds :
       o \in (1..Len(orders')) \ deleted_orders'
         => orders'[o] = [orders[o] EXCEPT
                            !.order_status = orders'[o].order_status]]_vars

\* ------------------------------------------------------------------ C23
\* the place of a status on the way pending, confirmed, shipped, delivered
Rank(st) ==
  CASE st = "pending" -> 1
    [] st = "confirmed" -> 2
    [] st = "shipped" -> 3
    [] st = "delivered" -> 4
    [] OTHER -> 0

\* C23: every Order row is inserted as pending, and a step that changes the
\* status of an order takes it from pending, confirmed or shipped either to
\* a later status of the way or to cancelled; nothing leaves delivered or
\* cancelled and nothing moves back.
C23_StatusMovesForward ==
  [][/\ \A o \in (1..Len(orders')) \ (1..Len(orders)) :
          orders'[o].order_status = "pending"
     /\ \A o \in OrderIds :
          ( /\ o \in (1..Len(orders')) \ deleted_orders'
            /\ orders'[o].order_status # orders[o].order_status )
          => /\ orders[o].order_status \in {"pending", "confirmed", "shipped"}
             /\ \/ orders'[o].order_status = "cancelled"
                \/ Rank(orders'[o].order_status)
                     > Rank(orders[o].order_status)]_vars

\* ------------------------------------------------------------------ C24
\* every line item the call holds has its product and an Inventory row
\* whose quantity_in_stock covers the line
CoveredByInventory(r) ==
  \A i \in DOMAIN req[r].items :
    LET item == req[r].items[i] IN
      /\ item.product_id \in products
      /\ item.product_id \in DOMAIN inventory
      /\ inventory[item.product_id] >= item.quantity

\* C24: the stock check of order placement is decided by
\* Inventory.quantity_in_stock, the quantity the cart endpoints check: a
\* POST /orders/ request whose line items are all covered by the Inventory
\* rows passes its stock check and goes on to place the order.
C24_StockCheckReadsInventory ==
  [][\A r \in Reqs :
       ( /\ req[r].op = "order_request" /\ req[r].pc = "stock"
         /\ req'[r] # req[r]
         /\ CoveredByInventory(r) )
       => req'[r].outcome \notin {"InternalError", "NotFound",
                                   "InsufficientStock"}]_vars

\* ------------------------------------------------------------------ C25
\* C25: in every reachable state no cart holds two line items of the same
\* product and every line item has a quantity of at least 1, whatever
\* add_item, update_item and remove_item calls have run and however their
\* steps interleave.
C25_OneLinePerProduct ==
  \A c \in DOMAIN cart_items :
    /\ \A i, j \in DOMAIN cart_items[c] :
         i # j => cart_items[c][i].product_id # cart_items[c][j].product_id
    /\ \A i \in DOMAIN cart_items[c] : cart_items[c][i].quantity >= 1

\* ------------------------------------------------------------------ C28
\* C28: when an add_item or update_item call is accepted, the line item it
\* wrote holds a quantity that is at most the quantity_in_stock the call
\* read for the product.
C28_LineWithinObservedStock ==
  [][\A r \in Reqs :
       ( /\ req'[r] # req[r]
         /\ req[r].op \in {"add_item", "update_item"}
         /\ req'[r].pc = "done"
         /\ req'[r].outcome \in {"Created", "Ok"} )
       => \A x \in ItemRows' :
            x \notin ItemRows => x.quantity <= req[r].seen]_vars

\* ------------------------------------------------------------------ C29
\* C29: in every reachable state no user has two shopping carts, however
\* the steps of get_cart and add_item calls interleave.
C29_OneCartPerUser ==
  \A c1, c2 \in DOMAIN shopping_carts :
    c1 # c2 => shopping_carts[c1] # shopping_carts[c2]

\* ------------------------------------------------------------------ C26
\* the create_inventory calls that inserted a row of product p
InsertedRows(p) ==
  {r \in Reqs : /\ req[r].op = "create_inventory" /\ req[r].product = p
                /\ Returned(r) /\ req[r].outcome = "Created"}

\* the Inventory rows of product p: the one it started with and the ones
\* inserted since (no row is deleted here)
RowsOf(p) ==
  (IF p \in DOMAIN initial_stock THEN 1 ELSE 0) + Cardinality(InsertedRows(p))

\* C26: after every step each product has at most one Inventory row, and a
\* step of a create_inventory call that finds the product missing or with an
\* Inventory row ends the call with an error and changes no Inventory row.
C26_OneInventoryRowPerProduct ==
  [][/\ \A p \in InventoryIds : RowsOf(p)' <= 1
     /\ \A r \in Reqs :
          ( /\ req[r].op = "create_inventory"
            /\ req'[r] # req[r]
            /\ \/ req[r].product \notin products
               \/ req[r].product \in DOMAIN inventory )
          => /\ req'[r].pc = "done"
             /\ req'[r].outcome
                  \in {"NotFound", "BadRequest", "InternalError"}
             /\ inventory' = inventory]_vars

\* two calls created inventory for the same product, which had none: one
\* inserted the row, the other was refused
C26_Witness ==
  \E r1, r2 \in Reqs :
    /\ req[r1].op = "create_inventory" /\ req[r2].op = "create_inventory"
    /\ req[r1].product = req[r2].product
    /\ req[r1].product \notin DOMAIN initial_stock
    /\ Returned(r1) /\ req[r1].outcome = "Created"
    /\ Returned(r2) /\ req[r2].outcome \in {"BadRequest", "InternalError"}
    /\ RowsOf(req[r1].product) = 1

\* ---------------------------------------------------------------- C27
\* C27: the tracking history of an order is append-only: every tracking entry
\* that exists before a step exists after it with the same status, location
\* and notes, as long as its order exists after the step
C27_TrackingAppendOnly ==
  [][\A t \in DOMAIN order_tracking :
       order_tracking[t].order_id \in (1..Len(orders')) \ deleted_orders' =>
         /\ t \in DOMAIN order_tracking'
         /\ order_tracking'[t] = order_tracking[t]]_vars


\* ---------------------------------------------------------------- C30
\* C30: in every reachable state each user has at most one address with
\* is_default true
C30_OneDefaultPerUser ==
  \A u \in Users : Cardinality(DefaultsOf(u)) <= 1

====
